---- MODULE Spec2Model ----
(***************************************************************************)
(* YahtzeeCalc (src/main.py): the scoring table CATEGORIES, the reroll     *)
(* estimator recommend_rerolls, the roll-frequency store (the in-memory    *)
(* Counter roll_data and the TinyDB table rolls_table) and the session     *)
(* loop of main().                                                         *)
(*                                                                         *)
(* Three specifications share the variables:                               *)
(*   Spec       the session loop of main(): one action per kind of input;  *)
(*   SpecScore  calculate_scores applied to every hand of 5 dice;          *)
(*   SpecRec    one recommendation (the body of main's inner loop) on      *)
(*              drawn inputs: hand, table, played categories, roll_count.  *)
(*                                                                         *)
(* Arithmetic.  The code computes expected values in binary floating       *)
(* point: max * weight * (1 + 0.1 * bonus), summed and divided by 6 or 36. *)
(* The model computes the same quantities exactly, scaled by EVScale = 360 *)
(* (10 for the 0.1 steps of the bonus, 36 for the two divisors), so every  *)
(* comparison is between integers.                                         *)
(***************************************************************************)
EXTENDS Integers, Sequences, FiniteSets, TLC

VARIABLES
    pc,                    \* where the program is: see each specification
    dice,                  \* main: the hand last entered (list of 5 ints)
    roll_count,            \* main: rerolls recommended so far this turn
    played_categories,     \* main: set of categories already used
    category_history,      \* main: list of the played categories, in order
    roll_data,             \* main: the Counter, as its items in dict order
    rolls_table,           \* TinyDB table "rolls": its documents, in order
    LastPlayedWasCategory, \* main: "unbound" until first assigned
    scores,                \* SpecScore: the result of calculate_scores
    rec                    \* the recommendation last computed

vars == <<pc, dice, roll_count, played_categories, category_history,
          roll_data, rolls_table, LastPlayedWasCategory, scores, rec>>

(***************************************************************************)
(* Program constants                                                       *)
(***************************************************************************)
NumDice == 5
NumFaces == 6
RollLimit == 3          \* while roll_count < 3
MaxRerolls == 2         \* max_rerolls=2 - roll_count
DefaultWeight == 1      \* roll_data.get(roll_key, 1)
EVScale == 10 * NumFaces * NumFaces

Faces == 1..NumFaces
Positions == 1..NumDice
AllHands == [Positions -> Faces]

(***************************************************************************)
(* Python helpers                                                          *)
(***************************************************************************)
\* sum(dice)
SumDice(d) == d[1] + d[2] + d[3] + d[4] + d[5]

\* Counter(dice)[f]: how many dice show f (0 when none does)
CountOf(d, f) ==
    (IF d[1] = f THEN 1 ELSE 0) + (IF d[2] = f THEN 1 ELSE 0)
    + (IF d[3] = f THEN 1 ELSE 0) + (IF d[4] = f THEN 1 ELSE 0)
    + (IF d[5] = f THEN 1 ELSE 0)

\* set(dice)
FaceSet(d) == {d[1], d[2], d[3], d[4], d[5]}

\* sorted(xs) for a list of integers
sorted(xs) == SortSeq(xs, LAMBDA a, b : a < b)

\* list(Counter(dice).values()): the multiplicity of each face present, in
\* the order the faces first appear in dice
RECURSIVE CounterValues(_, _)
CounterValues(d, i) ==
    IF i > NumDice THEN <<>>
    ELSE IF \E j \in 1..(i - 1) : d[j] = d[i] THEN CounterValues(d, i + 1)
    ELSE <<CountOf(d, d[i])>> \o CounterValues(d, i + 1)

\* 6 ** i
RECURSIVE Pow6(_)
Pow6(i) == IF i = 0 THEN 1 ELSE NumFaces * Pow6(i - 1)

\* max(xs) of a non-empty set of integers
MaxOf(S) == CHOOSE m \in S : \A x \in S : x <= m

(***************************************************************************)
(* CATEGORIES (main.py 20-34): the 13 scoring lambdas, in dict order       *)
(***************************************************************************)
CategoryOrder ==
    << "ones", "twos", "threes", "fours", "fives", "sixes",
       "three_of_a_kind", "four_of_a_kind", "full_house",
       "small_straight", "large_straight", "yahtzee", "chance" >>

CategoryNames == {CategoryOrder[i] : i \in DOMAIN CategoryOrder}

ones(d) == 1 * CountOf(d, 1)
twos(d) == 2 * CountOf(d, 2)
threes(d) == 3 * CountOf(d, 3)
fours(d) == 4 * CountOf(d, 4)
fives(d) == 5 * CountOf(d, 5)
sixes(d) == 6 * CountOf(d, 6)

three_of_a_kind(d) ==
    IF \E f \in FaceSet(d) : CountOf(d, f) >= 3 THEN SumDice(d) ELSE 0

four_of_a_kind(d) ==
    IF \E f \in FaceSet(d) : CountOf(d, f) >= 4 THEN SumDice(d) ELSE 0

\* A variant that also pays five of a kind
full_house_or_five(d) ==
    IF sorted(CounterValues(d, 1)) \in {<<2, 3>>, <<5>>} THEN 25 ELSE 0

full_house(d) == IF sorted(CounterValues(d, 1)) = <<2, 3>> THEN 25 ELSE 0

\* A variant that forgets the run 3-4-5-6
small_straight_two_runs(d) ==
    IF \/ Cardinality(FaceSet(d) \cap {1, 2, 3, 4}) = 4
       \/ Cardinality(FaceSet(d) \cap {2, 3, 4, 5}) = 4
    THEN 30 ELSE 0

small_straight(d) ==
    IF \/ Cardinality(FaceSet(d) \cap {1, 2, 3, 4}) = 4
       \/ Cardinality(FaceSet(d) \cap {2, 3, 4, 5}) = 4
       \/ Cardinality(FaceSet(d) \cap {3, 4, 5, 6}) = 4
    THEN 30 ELSE 0

large_straight(d) ==
    IF FaceSet(d) \in {{1, 2, 3, 4, 5}, {2, 3, 4, 5, 6}} THEN 40 ELSE 0

yahtzee(d) == IF Cardinality(FaceSet(d)) = 1 THEN 50 ELSE 0

chance(d) == SumDice(d)

\* CATEGORIES[category](dice)
CATEGORIES(category, d) ==
    CASE category = "ones" -> ones(d)
      [] category = "twos" -> twos(d)
      [] category = "threes" -> threes(d)
      [] category = "fours" -> fours(d)
      [] category = "fives" -> fives(d)
      [] category = "sixes" -> sixes(d)
      [] category = "three_of_a_kind" -> three_of_a_kind(d)
      [] category = "four_of_a_kind" -> four_of_a_kind(d)
      [] category = "full_house" -> full_house(d)
      [] category = "small_straight" -> small_straight(d)
      [] category = "large_straight" -> large_straight(d)
      [] category = "yahtzee" -> yahtzee(d)
      [] category = "chance" -> chance(d)

(***************************************************************************)
(* calculate_scores (main.py 82-84): a dict with one entry per category    *)
(* that is not in played_categories.                                       *)
(***************************************************************************)
\* Every hand has a number 1..6^5 (its dice as digits in base 6), and
\* ScoreTable lists, by that number, what each lambda of CATEGORIES returns
\* for the hand.  The table is built once: the lambdas are pure, and
\* recommend_rerolls calls them on hundreds of simulated hands.
HandCode(d) ==
    ((((d[1] - 1) * NumFaces + (d[2] - 1)) * NumFaces + (d[3] - 1)) * NumFaces
        + (d[4] - 1)) * NumFaces + d[5]

HandOfCode(n) ==
    [i \in Positions |-> (((n - 1) \div Pow6(NumDice - i)) % NumFaces) + 1]

ScoreTable ==
    [n \in 1..Pow6(NumDice) |->
        ([c \in CategoryNames |-> CATEGORIES(c, HandOfCode(n))] @@ <<>>)] \o <<>>

\* A variant that zero-fills the played categories instead of omitting them
calculate_scores_zero_filled(d, played) ==
    [category \in CategoryNames |->
        IF category \in played THEN 0 ELSE ScoreTable[HandCode(d)][category]]

\* A variant that scores every category, played or not
calculate_scores_ignoring_played(d, played) ==
    [category \in CategoryNames |-> ScoreTable[HandCode(d)][category]]

calculate_scores(d, played) ==
    LET row == ScoreTable[HandCode(d)]
    IN  [category \in {c \in CategoryNames : c \notin played} |-> row[category]]

(***************************************************************************)
(* The Counter roll_data: its items in dict (insertion) order, each a pair *)
(* <<roll_key, count>>                                                     *)
(***************************************************************************)
HasKey(rd, key) == \E i \in DOMAIN rd : rd[i][1] = key

IndexOf(rd, key) == CHOOSE i \in DOMAIN rd : rd[i][1] = key

\* roll_data[key] of a Counter: 0 for a missing key
CounterGet(rd, key) == IF HasKey(rd, key) THEN rd[IndexOf(rd, key)][2] ELSE 0

\* A variant that reads a missing key as a Counter does: 0
DictGetMissingZero(rd, key, default) ==
    IF HasKey(rd, key) THEN rd[IndexOf(rd, key)][2] ELSE 0

\* roll_data.get(key, default)
DictGet(rd, key, default) ==
    IF HasKey(rd, key) THEN rd[IndexOf(rd, key)][2] ELSE default

\* A variant that stores 1 instead of adding 1
CounterIncrStoresOne(rd, key) ==
    IF HasKey(rd, key)
    THEN [rd EXCEPT ![IndexOf(rd, key)][2] = 1]
    ELSE Append(rd, <<key, 1>>)

\* roll_data[key] += 1: an existing key keeps its place, a new one goes last
CounterIncr(rd, key) ==
    IF HasKey(rd, key)
    THEN [rd EXCEPT ![IndexOf(rd, key)][2] = @ + 1]
    ELSE Append(rd, <<key, 1>>)

\* roll_data[key] -= 1
CounterDecr(rd, key) ==
    IF HasKey(rd, key)
    THEN [rd EXCEPT ![IndexOf(rd, key)][2] = @ - 1]
    ELSE Append(rd, <<key, -1>>)

\* del roll_data[key]: Counter.__delitem__ ignores a missing key
CounterDel(rd, key) ==
    IF HasKey(rd, key)
    THEN LET k == IndexOf(rd, key)
         IN  [i \in 1..(Len(rd) - 1) |-> IF i < k THEN rd[i] ELSE rd[i + 1]]
    ELSE rd

(***************************************************************************)
(* recommend_rerolls (main.py 86-128)                                      *)
(***************************************************************************)
\* number_frequency[f] (lines 88-91)
RECURSIVE NumberFrequency(_, _, _)
NumberFrequency(rd, f, i) ==
    IF i > Len(rd) THEN 0
    ELSE rd[i][2] * CountOf(rd[i][1], f) + NumberFrequency(rd, f, i + 1)

\* The place where face f is first added to number_frequency: the keys of a
\* Counter keep the order of their first insertion (0: never added).
FirstSeen(rd, f) ==
    LET at == {<<i, j>> \in (DOMAIN rd) \X Positions : rd[i][1][j] = f}
    IN  IF at = {} THEN 0
        ELSE LET first == CHOOSE a \in at :
                     \A b \in at : a[1] < b[1] \/ (a[1] = b[1] /\ a[2] <= b[2])
             IN  (first[1] - 1) * NumDice + first[2]

\* {num for num, _ in number_frequency.most_common(2)} (lines 93-96):
\* most_common sorts by count, descending and stable, so among equal counts
\* the face inserted first comes first.
most_common_numbers(rd) ==
    LET seen == {f \in Faces : FirstSeen(rd, f) > 0}
        freq == [f \in seen |-> NumberFrequency(rd, f, 1)]
        Before(g, f) == \/ freq[g] > freq[f]
                        \/ freq[g] = freq[f] /\ FirstSeen(rd, g) < FirstSeen(rd, f)
    IN  {f \in seen : Cardinality({g \in seen : Before(g, f)}) < 2}

\* itertools.combinations(range(5), i): ascending tuples of i positions 0..4
Combinations(i) ==
    {c \in [1..i -> 0..(NumDice - 1)] : \A a, b \in 1..i : a < b => c[a] < c[b]}

\* A variant whose range runs one size too far
RerollChoicesOneMore(max_rerolls) ==
    UNION {Combinations(i) : i \in 1..(max_rerolls + 1)}

\* The keys of expected_values (lines 101-102)
RerollChoices(max_rerolls) ==
    UNION {Combinations(i) : i \in 1..max_rerolls}

\* Whether key a is inserted into expected_values before key b: sizes
\* ascending, and combinations() yields each size in lexicographic order.
RECURSIVE LexLess(_, _, _)
LexLess(a, b, i) ==
    IF i > Len(a) THEN FALSE
    ELSE a[i] < b[i] \/ (a[i] = b[i] /\ LexLess(a, b, i + 1))

InsertedBefore(a, b) ==
    Len(a) < Len(b) \/ (Len(a) = Len(b) /\ LexLess(a, b, 1))

\* A variant that scores the simulated hand against all 13 categories
AdjustedScoreAllCategories(simulated_dice, rd, played, common) ==
    LET roll_key == sorted(simulated_dice)
        weight == DictGet(rd, roll_key, DefaultWeight)
        bonus == Cardinality({p \in Positions : simulated_dice[p] \in common})
        sc == calculate_scores(simulated_dice, {})
    IN  MaxOf({sc[c] : c \in DOMAIN sc}) * weight * (10 + bonus)

\* A variant whose bonus lowers the score: 1 - 0.1 * bonus
AdjustedScoreBonusSubtracted(simulated_dice, rd, played, common) ==
    LET roll_key == sorted(simulated_dice)
        weight == DictGet(rd, roll_key, DefaultWeight)
        bonus == Cardinality({p \in Positions : simulated_dice[p] \in common})
        sc == calculate_scores(simulated_dice, played)
    IN  MaxOf({sc[c] : c \in DOMAIN sc}) * weight * (10 - bonus)

\* adjusted_score of one simulated hand, times 10 (lines 111-118)
AdjustedScore(simulated_dice, rd, played, common) ==
    LET roll_key == sorted(simulated_dice)
        weight == DictGet(rd, roll_key, DefaultWeight)
        bonus == Cardinality({p \in Positions : simulated_dice[p] \in common})
        sc == calculate_scores(simulated_dice, played)
    IN  MaxOf({sc[c] : c \in DOMAIN sc}) * weight * (10 + bonus)

\* sum(scores) over itertools.product(range(1, 7), repeat=len(reroll_indices)),
\* times 10 (lines 103-119): the dice at reroll_indices[j..] take every value.
RECURSIVE SumScores(_, _, _, _, _, _)
SumScores(d, reroll_indices, j, rd, played, common) ==
    IF j > Len(reroll_indices)
    THEN AdjustedScore(d, rd, played, common)
    ELSE LET With(v) == SumScores([d EXCEPT ![reroll_indices[j] + 1] = v],
                                  reroll_indices, j + 1, rd, played, common)
         IN  With(1) + With(2) + With(3) + With(4) + With(5) + With(6)

\* expected_values[reroll_indices] (line 121), times EVScale
ExpectedValue(d, reroll_indices, rd, played, common) ==
    SumScores(d, reroll_indices, 1, rd, played, common)
        * ((EVScale \div 10) \div Pow6(Len(reroll_indices)))

\* The whole dict expected_values (lines 98-121)
expected_values(d, rd, played, max_rerolls) ==
    LET common == most_common_numbers(rd)
    IN  [c \in RerollChoices(max_rerolls) |-> ExpectedValue(d, c, rd, played, common)]

\* max(evs, key=evs.get) (line 126): the first key, in insertion order, of
\* the greatest value
BestRerollIndices(evs) ==
    CHOOSE c \in DOMAIN evs :
        /\ \A o \in DOMAIN evs : evs[o] <= evs[c]
        /\ \A o \in DOMAIN evs : evs[o] = evs[c] => (o = c \/ InsertedBefore(c, o))

\* The call: raised (max() of an empty sequence, a ValueError, at line 116
\* or at line 124), or the pair returned, the expected value times EVScale.
\* reroll_indices and expected_values are the locals best_reroll_indices and
\* expected_values, which are not returned.
recommend_rerolls(d, rd, played, max_rerolls) ==
    IF DOMAIN calculate_scores(d, played) = {}
    THEN [raised |-> TRUE]
    ELSE IF RerollChoices(max_rerolls) = {}
    THEN LET sc == calculate_scores(d, played)
         IN  [raised |-> FALSE, reroll_values |-> <<>>, reroll_indices |-> <<>>,
              expected_value |-> EVScale * MaxOf({sc[c] : c \in DOMAIN sc}),
              expected_values |-> <<>>]
    ELSE LET evs == expected_values(d, rd, played, max_rerolls)
             best_reroll_indices == BestRerollIndices(evs)
         IN  [raised |-> FALSE,
              reroll_values |-> [i \in DOMAIN best_reroll_indices |->
                                    d[best_reroll_indices[i] + 1]],
              reroll_indices |-> best_reroll_indices,
              expected_value |-> evs[best_reroll_indices],
              expected_values |-> evs]

\* max(scores, key=scores.get) (line 182): the first category, in dict
\* order, of the greatest score
BestCategory(sc) ==
    LET best == MaxOf({sc[c] : c \in DOMAIN sc})
        k == CHOOSE i \in DOMAIN CategoryOrder :
                 /\ CategoryOrder[i] \in DOMAIN sc
                 /\ sc[CategoryOrder[i]] = best
                 /\ \A j \in 1..(i - 1) :
                        CategoryOrder[j] \in DOMAIN sc => sc[CategoryOrder[j]] # best
    IN  CategoryOrder[k]

\* A variant that rerolls on a tie
ScoresNowStrict(best_score, expected_reroll_value) ==
    EVScale * best_score > expected_reroll_value

\* The comparison of line 187, both sides times EVScale
ScoresNow(best_score, expected_reroll_value) ==
    EVScale * best_score >= expected_reroll_value

\* A variant that allows max_rerolls = 3 - roll_count
RecommendationThreeRerolls(d, rd, played, rc) ==
    LET r == recommend_rerolls(d, rd, played, RollLimit - rc)
    IN  IF r.raised
        THEN [kind |-> "Error"]
        ELSE LET sc == calculate_scores(d, played)
                 best_category == BestCategory(sc)
                 best_score == sc[best_category]
             IN  [kind |-> IF ScoresNow(best_score, r.expected_value)
                           THEN "Score" ELSE "Reroll",
                  category |-> best_category, score |-> best_score,
                  reroll_values |-> r.reroll_values,
                  expected_value |-> r.expected_value,
                  reroll_indices |-> r.reroll_indices,
                  expected_values |-> r.expected_values]

\* One pass of main's inner loop (lines 176-201): the recommendation made for
\* hand d with roll_count rerolls already recommended this turn.
Recommendation(d, rd, played, rc) ==
    LET r == recommend_rerolls(d, rd, played, MaxRerolls - rc)
    IN  IF r.raised
        THEN [kind |-> "Error"]
        ELSE LET sc == calculate_scores(d, played)
                 best_category == BestCategory(sc)
                 best_score == sc[best_category]
             IN  [kind |-> IF ScoresNow(best_score, r.expected_value)
                           THEN "Score" ELSE "Reroll",
                  category |-> best_category, score |-> best_score,
                  reroll_values |-> r.reroll_values,
                  expected_value |-> r.expected_value,
                  reroll_indices |-> r.reroll_indices,
                  expected_values |-> r.expected_values]

(***************************************************************************)
(* The TinyDB table "rolls": its documents in insertion order, each        *)
(* [roll |-> list of 5 ints, count |-> n]                                  *)
(***************************************************************************)
\* roll_data[roll_key] = count on a Counter: a present key keeps its place
DictSet(rd, key, count) ==
    IF HasKey(rd, key)
    THEN [rd EXCEPT ![IndexOf(rd, key)][2] = count]
    ELSE Append(rd, <<key, count>>)

\* load_roll_data (lines 45-51)
RECURSIVE LoadEntries(_, _, _)
LoadEntries(table, i, rd) ==
    IF i > Len(table) THEN rd
    ELSE LoadEntries(table, i + 1, DictSet(rd, table[i].roll, table[i].count))

load_roll_data(table) == LoadEntries(table, 1, <<>>)

\* A variant that leaves the documents in place
truncate_nothing(table) == table

\* rolls_table.truncate() (line 55)
truncate(table) == <<>>

\* save_roll_data (lines 53-57): truncate, then one insert per item
RECURSIVE InsertItems(_, _, _)
InsertItems(table, rd, i) ==
    IF i > Len(rd) THEN table
    ELSE InsertItems(Append(table, [roll |-> rd[i][1], count |-> rd[i][2]]), rd, i + 1)

save_roll_data(table, rd) == InsertItems(truncate(table), rd, 1)

\* A variant that always decrements and never deletes
undo_last_roll_decrement(rd, table) ==
    IF table = <<>>
    THEN [roll_data |-> rd, rolls_table |-> table]
    ELSE LET last_roll == table[Len(table)].roll
         IN  [roll_data |-> CounterDecr(rd, last_roll),
              rolls_table |-> SubSeq(table, 1, Len(table) - 1)]

\* undo_last_roll (lines 59-80): the new roll_data and the new table
undo_last_roll(rd, table) ==
    IF table = <<>>
    THEN [roll_data |-> rd, rolls_table |-> table]
    ELSE LET last_entry == table[Len(table)]
             last_roll == last_entry.roll
         IN  [roll_data |-> IF CounterGet(rd, last_roll) > 1
                            THEN CounterDecr(rd, last_roll)
                            ELSE CounterDel(rd, last_roll),
              rolls_table |-> SubSeq(table, 1, Len(table) - 1)]

(***************************************************************************)
(* Bounds of the model                                                     *)
(***************************************************************************)
\* SpecScore excludes every set of at most MaxExcluded categories, and
\* every set that leaves at most MaxExcluded categories.
MaxExcluded == 1

ExcludedSets ==
    {E \in SUBSET CategoryNames :
        \/ Cardinality(E) <= MaxExcluded
        \/ Cardinality(E) >= Cardinality(CategoryNames) - MaxExcluded}

NoRec == [kind |-> "None"]

(***************************************************************************)
(* SpecScore: calculate_scores on every hand of 5 dice in 1..6 and the     *)
(* excluded sets above.                                                    *)
(***************************************************************************)
InitScore ==
    /\ pc = "input"
    /\ played_categories \in ExcludedSets
    /\ dice \in AllHands
    /\ roll_count = 0
    /\ category_history = <<>>
    /\ roll_data = <<>>
    /\ rolls_table = <<>>
    /\ LastPlayedWasCategory = "unbound"
    /\ scores = <<>>
    /\ rec = NoRec

ScoreAll ==
    /\ pc = "input"
    /\ scores' = calculate_scores(dice, played_categories)
    /\ pc' = "scored"
    /\ UNCHANGED <<dice, roll_count, played_categories, category_history,
                   roll_data, rolls_table, LastPlayedWasCategory, rec>>

NextScore == ScoreAll

SpecScore == InitScore /\ [][NextScore]_vars

(***************************************************************************)
(* SpecRec: one recommendation on drawn inputs.  The table is built by     *)
(* recording at most MaxObservations observations of the hands ObsHands.   *)
(***************************************************************************)
MaxObservations == 2

ObsHands == {<<1, 1, 1, 1, 1>>, <<6, 1, 2, 4, 3>>}

RecHands ==
    { <<1, 1, 1, 1, 2>>, <<1, 2, 3, 4, 5>>, <<2, 2, 3, 3, 3>>, <<6, 6, 6, 6, 6>>,
      <<3, 1, 1, 2, 1>>, <<1, 3, 4, 6, 6>> }

RecExcluded ==
    { {}, CategoryNames, CategoryNames \ {"yahtzee"}, CategoryNames \ {"chance"},
      {"chance"},
      {"three_of_a_kind", "four_of_a_kind", "yahtzee", "chance"},
      {"ones", "twos", "threes", "fours", "fives", "sixes"} }

\* The observations recorded in a table
RECURSIVE TotalCount(_, _)
TotalCount(rd, i) == IF i > Len(rd) THEN 0 ELSE rd[i][2] + TotalCount(rd, i + 1)

InitRec ==
    /\ pc = "input"
    /\ played_categories \in RecExcluded
    /\ dice \in RecHands
    /\ roll_count \in 0..MaxRerolls
    /\ category_history = <<>>
    /\ roll_data = <<>>
    /\ rolls_table = <<>>
    /\ LastPlayedWasCategory = "unbound"
    /\ scores = <<>>
    /\ rec = NoRec

\* recordObservation: lines 170-171
Observe(h) ==
    /\ pc = "input"
    /\ TotalCount(roll_data, 1) < MaxObservations
    /\ roll_data' = CounterIncr(roll_data, sorted(h))
    /\ UNCHANGED <<pc, dice, roll_count, played_categories, category_history,
                   rolls_table, LastPlayedWasCategory, scores, rec>>

Recommend ==
    /\ pc = "input"
    /\ rec' = Recommendation(dice, roll_data, played_categories, roll_count)
    /\ pc' = "recommended"
    /\ UNCHANGED <<dice, roll_count, played_categories, category_history,
                   roll_data, rolls_table, LastPlayedWasCategory, scores>>

NextRec == (\E h \in ObsHands : Observe(h)) \/ Recommend

SpecRec == InitRec /\ [][NextRec]_vars

(***************************************************************************)
(* SpecRaise: the table grows by one observation at a time (lines 170-171) *)
(* while a hand, and the categories played, stay fixed: how the estimates  *)
(* of recommend_rerolls for that hand move as a count is raised.           *)
(***************************************************************************)
MaxRaised == 3

RaisedHands == {<<1, 2, 2, 2, 6>>, <<2, 3, 4, 4, 6>>}

RaiseDice ==
    { <<3, 4, 2, 6, 2>>, <<2, 3, 4, 4, 6>>, <<1, 2, 2, 2, 6>>, <<2, 2, 2, 6, 6>> }

RaiseExcluded ==
    { {}, {"chance"}, CategoryNames \ {"yahtzee"},
      {"ones", "twos", "threes", "fours", "fives", "sixes"} }

InitRaise ==
    /\ pc = "input"
    /\ played_categories \in RaiseExcluded
    /\ dice \in RaiseDice
    /\ roll_count = 0
    /\ category_history = <<>>
    /\ roll_data = <<>>
    /\ rolls_table = <<>>
    /\ LastPlayedWasCategory = "unbound"
    /\ scores = <<>>
    /\ rec = NoRec

\* roll_data[roll_key] += 1 for an observation of h (lines 170-171)
RecordObservation(h) ==
    /\ pc = "input"
    /\ TotalCount(roll_data, 1) < MaxRaised
    /\ roll_data' = CounterIncr(roll_data, sorted(h))
    /\ UNCHANGED <<pc, dice, roll_count, played_categories, category_history,
                   rolls_table, LastPlayedWasCategory, scores, rec>>

NextRaise == \E h \in RaisedHands : RecordObservation(h)

SpecRaise == InitRaise /\ [][NextRaise]_vars

(***************************************************************************)
(* Spec: the session loop of main() (lines 131-219).  The program waits at *)
(* the prompt (pc = "prompt") and handles one line of input per step; an   *)
(* uncaught exception ends it (pc = "crashed").  rec is what the step      *)
(* printed.                                                                *)
(***************************************************************************)
\* No key of the table is counted past MaxCount, and no hand is entered
\* once MaxPlayed categories are played.
MaxCount == 2
MaxPlayed == 2

\* The lines typed at the prompt, after input_dice.split(): the tokens, as
\* integers where int() accepts them; numeric is FALSE when some token is
\* not an integer, for which int() raises ValueError.
ValidInputs ==
    { [numeric |-> TRUE, values |-> <<1, 1, 1, 1, 2>>],
      [numeric |-> TRUE, values |-> <<2, 1, 1, 1, 1>>],
      [numeric |-> TRUE, values |-> <<1, 2, 3, 4, 5>>] }

InvalidInputs ==
    { [numeric |-> TRUE, values |-> <<1, 2, 3, 4>>],
      [numeric |-> TRUE, values |-> <<1, 2, 3, 4, 7>>],
      [numeric |-> TRUE, values |-> <<0, 2, 3, 4, 5>>],
      [numeric |-> FALSE, values |-> <<>>] }

Inputs == ValidInputs \cup InvalidInputs

\* Lines 160-168: whether the line is accepted as a hand
IsHand(inp) ==
    /\ inp.numeric
    /\ ~ (\/ Len(inp.values) # NumDice
          \/ \E i \in DOMAIN inp.values : inp.values[i] < 1 \/ inp.values[i] > NumFaces)

\* What an earlier session left in the database: nothing, or what
\* save_roll_data wrote for a table of one hand seen once.
InitialStores == {<<>>, save_roll_data(<<>>, <<<<<<1, 1, 1, 1, 2>>, 1>>>>)}

Init ==
    /\ pc = "prompt"
    /\ dice = <<>>
    /\ roll_count = 0
    /\ played_categories = {}
    /\ category_history = <<>>
    /\ rolls_table \in InitialStores
    /\ roll_data = load_roll_data(rolls_table)
    /\ LastPlayedWasCategory = "unbound"
    /\ scores = <<>>
    /\ rec = NoRec

\* Lines 145-158: the line is "back"
HandleBack ==
    /\ pc = "prompt"
    /\ IF rolls_table # <<>> /\ LastPlayedWasCategory = "unbound"
       THEN \* line 146 reads the local before any assignment: UnboundLocalError
            /\ pc' = "crashed"
            /\ rec' = [kind |-> "Error", error |-> "UnboundLocalError"]
            /\ UNCHANGED <<roll_data, rolls_table, played_categories, category_history>>
       ELSE IF rolls_table # <<>> /\ LastPlayedWasCategory = "False"
       THEN LET u == undo_last_roll(roll_data, rolls_table)
            IN  /\ roll_data' = u.roll_data
                /\ rolls_table' = u.rolls_table
                /\ rec' = [kind |-> "UndoRoll"]
                /\ UNCHANGED <<pc, played_categories, category_history>>
       ELSE IF category_history # <<>> /\ LastPlayedWasCategory = "True"
       THEN LET last_category == category_history[Len(category_history)]
            IN  /\ category_history' = SubSeq(category_history, 1, Len(category_history) - 1)
                /\ played_categories' = played_categories \ {last_category}
                /\ rec' = [kind |-> "UndoCategory", category |-> last_category]
                /\ UNCHANGED <<pc, roll_data, rolls_table>>
       ELSE /\ rec' = [kind |-> "NothingToUndo"]
            /\ UNCHANGED <<pc, roll_data, rolls_table, played_categories, category_history>>
    /\ UNCHANGED <<dice, roll_count, LastPlayedWasCategory, scores>>

\* A variant that records the line in roll_data before validating it
HandleInvalidAfterRecording(inp) ==
    /\ pc = "prompt"
    /\ ~ IsHand(inp)
    /\ rec' = [kind |-> "Invalid"]
    /\ roll_data' = CounterIncr(roll_data, sorted(inp.values))
    /\ UNCHANGED <<pc, dice, roll_count, played_categories, category_history,
                   rolls_table, LastPlayedWasCategory, scores>>

\* Lines 160-168: the line is not a hand; "Invalid input." is printed and
\* the loop continues.  (The local dice may be left holding the rejected
\* list, which is never read: dice here is the last hand accepted.)
HandleInvalid(inp) ==
    /\ pc = "prompt"
    /\ ~ IsHand(inp)
    /\ rec' = [kind |-> "Invalid"]
    /\ UNCHANGED <<pc, dice, roll_count, played_categories, category_history,
                   roll_data, rolls_table, LastPlayedWasCategory, scores>>

\* Lines 174-201: what the while loop, which always breaks after one pass,
\* leaves in the locals given the recommendation r it computed; raised when
\* max() raised ValueError.
TurnLoop(r, played, history, rc, lpwc) ==
    IF r.kind = "Score"
    THEN [raised |-> FALSE, played |-> played \cup {r.category},
          history |-> Append(history, r.category), rc |-> 0,
          lpwc |-> "True", out |-> r]
    ELSE IF r.kind = "Reroll"
    THEN [raised |-> FALSE, played |-> played, history |-> history,
          rc |-> rc + 1, lpwc |-> "False", out |-> r]
    ELSE IF r.kind = "Error"
    THEN [raised |-> TRUE, played |-> played, history |-> history,
          rc |-> rc, lpwc |-> lpwc, out |-> r]
    ELSE [raised |-> FALSE, played |-> played, history |-> history,
          rc |-> rc, lpwc |-> lpwc, out |-> r]

\* Lines 203-214: "Reroll limit reached", after the loop left the locals loop
AfterLoop(d, loop) ==
    IF loop.raised \/ loop.rc < RollLimit
    THEN loop
    ELSE LET sc == calculate_scores(d, loop.played)
         IN  IF DOMAIN sc = {}
             THEN [loop EXCEPT !.raised = TRUE, !.out = [kind |-> "Error"]]
             ELSE [raised |-> FALSE, played |-> loop.played \cup {BestCategory(sc)},
                   history |-> Append(loop.history, BestCategory(sc)), rc |-> 0,
                   lpwc |-> "True",
                   out |-> [kind |-> "ForcedScore", category |-> BestCategory(sc),
                            score |-> sc[BestCategory(sc)]]]

\* Lines 174-214 for hand d, with roll_data already updated to rd: what the
\* turn logic leaves in the locals.
TurnLogic(d, rd, played, history, rc, lpwc) ==
    CHOOSE t \in { AfterLoop(d, loop) :
                   loop \in { TurnLoop(r, played, history, rc, lpwc) :
                              r \in { IF rc < RollLimit
                                      THEN Recommendation(d, rd, played, rc)
                                      ELSE NoRec } } } : TRUE

\* Lines 160-217: the line is a hand
HandleRoll(inp) ==
    /\ pc = "prompt"
    /\ IsHand(inp)
    /\ CounterGet(roll_data, sorted(inp.values)) < MaxCount
    /\ Cardinality(played_categories) < MaxPlayed
    /\ \E t \in {TurnLogic(inp.values, CounterIncr(roll_data, sorted(inp.values)),
                             played_categories, category_history, roll_count,
                             LastPlayedWasCategory)} :
        LET d == inp.values
            roll_key == sorted(d)
            \* lines 170-172
            rd == CounterIncr(roll_data, roll_key)
            inserted == Append(rolls_table,
                               [roll |-> roll_key, count |-> CounterGet(rd, roll_key)])
        IN  /\ dice' = d
            /\ roll_data' = rd
            /\ played_categories' = t.played
            /\ category_history' = t.history
            /\ roll_count' = t.rc
            /\ LastPlayedWasCategory' = t.lpwc
            /\ IF t.raised
               THEN /\ pc' = "crashed"
                    /\ rolls_table' = inserted
                    /\ rec' = [kind |-> "Error", error |-> "ValueError"]
               ELSE \* lines 216-217
                    /\ pc' = pc
                    /\ rolls_table' = save_roll_data(inserted, rd)
                    /\ rec' = t.out
    /\ UNCHANGED scores

Next ==
    \/ HandleBack
    \/ \E inp \in Inputs : HandleInvalid(inp)
    \/ \E inp \in Inputs : HandleRoll(inp)

Spec == Init /\ [][Next]_vars

(***************************************************************************)
(* The claims                                                              *)
(***************************************************************************)
\* Rerolls remaining when the recommendation is computed
RerollsRemaining == MaxRerolls - roll_count

\* How many dice of d show f
Multiplicity(d, f) == Cardinality({i \in Positions : d[i] = f})

\* The best score of hand d over the categories in cats
BestOver(d, cats) == MaxOf({CATEGORIES(c, d) : c \in cats})

\* The values of a dict
Values(f) == {f[x] : x \in DOMAIN f}

\* C1: with zero rerolls remaining and at least one category left, the
\* recommendation is a Score, of a category that is left and whose score no
\* other category left exceeds; it is never a Reroll.
C1_ZeroRerollsScore ==
    (pc = "recommended" /\ RerollsRemaining = 0 /\ played_categories # CategoryNames)
        => /\ rec.kind = "Score"
           /\ rec.category \in CategoryNames \ played_categories
           /\ rec.score = CATEGORIES(rec.category, dice)
           /\ rec.score = BestOver(dice, CategoryNames \ played_categories)

\* C1's case: the hand 1 1 1 1 2, which is told to reroll while rerolls
\* remain, is scored when none remains.
C1_Witness ==
    /\ pc = "recommended" /\ RerollsRemaining = 0
    /\ dice = <<1, 1, 1, 1, 2>> /\ played_categories = {} /\ roll_data # <<>>
    /\ rec.kind = "Score"
    /\ Recommendation(dice, roll_data, played_categories, 0).kind = "Reroll"

\* C2: with all 13 categories played the recommendation fails, whatever the
\* hand, the table and the rerolls remaining: neither Score nor Reroll.
C2_AllPlayedFails ==
    (pc = "recommended" /\ played_categories = CategoryNames)
        => rec.kind = "Error"

C2_Witness ==
    /\ pc = "recommended" /\ played_categories = CategoryNames
    /\ Cardinality(played_categories) = 13
    /\ RerollsRemaining = 2 /\ roll_data # <<>>
    /\ rec.kind = "Error"

\* Whether every outcome of rerolling the dice at reroll_indices reaches its
\* best score over all 13 categories in a category that is not excluded
KeepsBest(d, reroll_indices, excluded) ==
    \A new_values \in [DOMAIN reroll_indices -> Faces] :
        LET simulated_dice ==
                [p \in Positions |->
                    IF \E j \in DOMAIN reroll_indices : reroll_indices[j] + 1 = p
                    THEN new_values[CHOOSE j \in DOMAIN reroll_indices :
                                        reroll_indices[j] + 1 = p]
                    ELSE d[p]]
        IN  Values(calculate_scores(simulated_dice, excluded))
                \cap {MaxOf(Values(calculate_scores(simulated_dice, {})))} # {}

\* C3 as stated: with rerolls remaining, every reroll subset has the same
\* expected value whatever is excluded (here: as with nothing excluded).
C3_IndependentOfExcluded ==
    (pc = "recommended" /\ RerollsRemaining >= 1 /\ played_categories # CategoryNames)
        => rec.expected_values
               = expected_values(dice, roll_data, {}, RerollsRemaining)

\* C3 amended: each simulated hand is scored against the categories that are
\* not excluded, so a subset's expected value never exceeds its value with
\* nothing excluded, and equals it exactly when every outcome of the subset
\* reaches its best score in a category that is not excluded.
C3_ScoredAgainstRemaining ==
    (pc = "recommended" /\ RerollsRemaining >= 1 /\ played_categories # CategoryNames)
        => LET full == expected_values(dice, roll_data, {}, RerollsRemaining)
           IN  /\ DOMAIN rec.expected_values = DOMAIN full
               /\ \A c \in DOMAIN full :
                    /\ rec.expected_values[c] <= full[c]
                    /\ (rec.expected_values[c] = full[c])
                           <=> KeepsBest(dice, c, played_categories)

\* C3's case: excluding chance alone lowers the expected value of a subset.
C3_Witness ==
    /\ pc = "recommended" /\ RerollsRemaining = 2
    /\ played_categories = {"chance"} /\ roll_data # <<>>
    /\ \E c \in DOMAIN rec.expected_values :
           rec.expected_values[c]
               < expected_values(dice, roll_data, {}, RerollsRemaining)[c]

\* C4: with rerolls remaining, the recommendation is Score exactly when the
\* best score over the categories left is at least the greatest expected
\* value over all subsets of 1..k positions, and Reroll exactly when that
\* value is strictly greater: a tie is scored.
C4_ScoreIffAtLeastBestEV ==
    (pc = "recommended" /\ RerollsRemaining >= 1 /\ played_categories # CategoryNames)
        => LET best_now == BestOver(dice, CategoryNames \ played_categories)
               best_ev == MaxOf(Values(rec.expected_values))
           IN  /\ Cardinality(DOMAIN rec.expected_values)
                      = IF RerollsRemaining = 1 THEN 5 ELSE 15
               /\ rec.kind \in {"Score", "Reroll"}
               /\ rec.kind = "Score" <=> EVScale * best_now >= best_ev
               /\ rec.kind = "Reroll" <=> best_ev > EVScale * best_now
               /\ rec.expected_value = best_ev

\* C4's case: a tie, which is scored.
C4_Witness ==
    /\ pc = "recommended" /\ RerollsRemaining >= 1
    /\ played_categories # CategoryNames
    /\ rec.kind = "Score"
    /\ EVScale * rec.score = MaxOf(Values(rec.expected_values))

\* C5: calculate_scores has an entry for exactly the categories that are
\* not excluded, each the value of its rule: 13 entries when nothing is
\* excluded, none for an excluded category, and an empty result only when
\* all 13 are excluded.
C5_EntriesAreTheRemaining ==
    pc = "scored"
        => /\ DOMAIN scores = CategoryNames \ played_categories
           /\ Cardinality(CategoryNames) = 13
           /\ played_categories = {} => Cardinality(DOMAIN scores) = 13
           /\ \A c \in played_categories : c \notin DOMAIN scores
           /\ DOMAIN scores = {} <=> played_categories = CategoryNames
           /\ \A c \in DOMAIN scores : scores[c] = CATEGORIES(c, dice)

C5_Witness ==
    /\ pc = "scored"
    /\ played_categories = {"chance"}
    /\ Cardinality(DOMAIN scores) = 12 /\ "chance" \notin DOMAIN scores

\* C6: full_house is 25 exactly for a triple of one face plus a pair of
\* another, else 0; yahtzee is 50 exactly when the five dice are equal, else
\* 0; so five of a kind is 50 in yahtzee and 0 in full_house.
C6_FullHouseAndYahtzee ==
    (pc = "scored" /\ {"full_house", "yahtzee"} \subseteq DOMAIN scores)
        => LET pair_and_triple ==
                   \E a, b \in Faces : /\ a # b
                                       /\ Multiplicity(dice, a) = 3
                                       /\ Multiplicity(dice, b) = 2
               all_equal == \A i, j \in Positions : dice[i] = dice[j]
           IN  /\ scores["full_house"] = IF pair_and_triple THEN 25 ELSE 0
               /\ scores["yahtzee"] = IF all_equal THEN 50 ELSE 0
               /\ all_equal => scores["full_house"] = 0

C6_Witness ==
    /\ pc = "scored" /\ played_categories = {}
    /\ dice = <<1, 1, 1, 1, 1>>
    /\ scores["yahtzee"] = 50 /\ scores["full_house"] = 0

\* C7: small_straight is 30 exactly when the faces shown contain 1-2-3-4,
\* 2-3-4-5 or 3-4-5-6, else 0; large_straight is 40 exactly when the faces
\* shown are 1..5 or 2..6, else 0; so a large straight is a small one too.
C7_Straights ==
    (pc = "scored" /\ {"small_straight", "large_straight"} \subseteq DOMAIN scores)
        => LET shown == {dice[i] : i \in Positions}
               small == \/ {1, 2, 3, 4} \subseteq shown
                        \/ {2, 3, 4, 5} \subseteq shown
                        \/ {3, 4, 5, 6} \subseteq shown
               large == shown = 1..5 \/ shown = 2..6
           IN  /\ scores["small_straight"] = IF small THEN 30 ELSE 0
               /\ scores["large_straight"] = IF large THEN 40 ELSE 0
               /\ scores["large_straight"] = 40 => scores["small_straight"] = 30

C7_Witness ==
    /\ pc = "scored" /\ played_categories = {}
    /\ dice = <<1, 2, 3, 4, 6>>
    /\ scores["small_straight"] = 30 /\ scores["large_straight"] = 0

\* Whether k is a key the program stores: a sorted hand of 5 dice in 1..6
IsSortedHand(k) ==
    /\ DOMAIN k = Positions
    /\ \A i \in Positions : k[i] \in Faces
    /\ \A i \in 1..(NumDice - 1) : k[i] <= k[i + 1]

\* C8: every key of roll_data is a sorted hand of 5 dice, kept once, with a
\* count of at least 1; and the weight the estimator reads for a hand is the
\* count kept for its sorted form, or 1 when that is not a key.
C8_CountsAtLeastOne ==
    /\ \A i \in DOMAIN roll_data :
          /\ IsSortedHand(roll_data[i][1])
          /\ roll_data[i][2] >= 1
          /\ \A j \in DOMAIN roll_data : roll_data[j][1] = roll_data[i][1] => j = i
    /\ \A inp \in ValidInputs :
          LET weight == DictGet(roll_data, sorted(inp.values), DefaultWeight)
              kept == {i \in DOMAIN roll_data :
                          /\ \A f \in Faces : Multiplicity(roll_data[i][1], f)
                                                  = Multiplicity(inp.values, f)}
          IN  /\ weight >= 1
              /\ kept = {} => weight = 1
              /\ \A i \in kept : weight = roll_data[i][2]

\* C8's case: a hand seen twice, then one roll undone: its count is 1 again
\* while its document is gone from the table.
C8_Witness ==
    /\ pc = "prompt" /\ rec.kind = "UndoRoll"
    /\ \E i \in DOMAIN roll_data :
          /\ roll_data[i][2] = 1
          /\ \A j \in DOMAIN rolls_table : rolls_table[j].roll # roll_data[i][1]

\* The entries of the Counter and of the table, as sets of <<key, count>>
ItemsOf(rd) == {<<rd[i][1], rd[i][2]>> : i \in DOMAIN rd}

DocumentsOf(table) == {<<table[i].roll, table[i].count>> : i \in DOMAIN table}

\* C9: what save_roll_data writes loads back as the same table, and right
\* after a hand is handled the database holds exactly one document per key:
\* the documents it held before, the one inserted for this hand included,
\* are replaced.
C9_SaveThenLoad ==
    /\ ItemsOf(load_roll_data(save_roll_data(rolls_table, roll_data))) = ItemsOf(roll_data)
    /\ Len(load_roll_data(save_roll_data(rolls_table, roll_data))) = Len(roll_data)
    /\ (pc = "prompt" /\ rec.kind \in {"Score", "Reroll", "ForcedScore"})
          => /\ ItemsOf(load_roll_data(rolls_table)) = ItemsOf(roll_data)
             /\ DocumentsOf(rolls_table) = ItemsOf(roll_data)
             /\ Len(rolls_table) = Len(roll_data)
             /\ \A i, j \in DOMAIN rolls_table :
                    rolls_table[i].roll = rolls_table[j].roll => i = j

\* C9's case: a hand already in the table is entered again, so the document
\* inserted for it repeats a key of the database.
C9_Witness ==
    /\ pc = "prompt" /\ rec.kind = "Reroll"
    /\ Len(roll_data) = 2 /\ Len(rolls_table) = 2
    /\ \E i \in DOMAIN rolls_table : rolls_table[i].count = 2

\* C10: no category is played twice: at most 13 are played, the history
\* repeats none, the history holds exactly the played ones, and a category
\* just scored was not played before.
C10_PlayedOnce ==
    /\ Cardinality(played_categories) <= 13
    /\ played_categories \subseteq CategoryNames
    /\ \A i, j \in DOMAIN category_history :
          category_history[i] = category_history[j] => i = j
    /\ {category_history[i] : i \in DOMAIN category_history} = played_categories
    /\ (pc = "prompt" /\ rec.kind = "Score")
          => /\ category_history # <<>>
             /\ category_history[Len(category_history)] = rec.category
             /\ \A i \in 1..(Len(category_history) - 1) :
                    category_history[i] # rec.category

\* C10's case: a second category is scored while the first one, the best
\* for this hand, is already played.
C10_Witness ==
    /\ pc = "prompt" /\ rec.kind = "Score"
    /\ Len(category_history) = 2
    /\ CATEGORIES(category_history[1], dice) >= rec.score

\* C11: a Reroll recommendation names die positions: between 1 and
\* rerolls-remaining of them, each within 0..4, no two the same, and they
\* are the positions of the reroll subset whose expected value is the best.
C11_NamesPositions ==
    (pc = "recommended" /\ rec.kind = "Reroll")
        => /\ Len(rec.reroll_values) \in 1..RerollsRemaining
           /\ \A i \in DOMAIN rec.reroll_values : rec.reroll_values[i] \in 0..(NumDice - 1)
           /\ \A i, j \in DOMAIN rec.reroll_values :
                  rec.reroll_values[i] = rec.reroll_values[j] => i = j
           /\ rec.reroll_values = rec.reroll_indices

\* The keys of the Counter
KeysOf(rd) == {rd[i][1] : i \in DOMAIN rd}

\* C12: a step that answers a hand with Score or Reroll adds exactly 1 to the
\* count kept for the hand's sorted form and leaves every other count as it
\* was; every key is sorted, so the permutations of a hand share one key.
C12_RecordsTheHand ==
    [][(pc = "prompt" /\ rec'.kind \in {"Score", "Reroll"})
          => /\ CounterGet(roll_data', sorted(dice'))
                    = CounterGet(roll_data, sorted(dice')) + 1
             /\ \A k \in KeysOf(roll_data) \cup KeysOf(roll_data') :
                    k # sorted(dice') => CounterGet(roll_data', k) = CounterGet(roll_data, k)
             /\ \A k \in KeysOf(roll_data') : IsSortedHand(k)
             /\ \A f \in Faces : Multiplicity(sorted(dice'), f) = Multiplicity(dice', f)]_vars

\* C12's case: the hand 2 1 1 1 1 was entered and answered while 1 1 1 1 2
\* was already counted, and the one key 1 1 1 1 2 now counts 2.
C12_Witness ==
    /\ pc = "prompt" /\ rec.kind \in {"Score", "Reroll"}
    /\ dice = <<2, 1, 1, 1, 1>>
    /\ KeysOf(roll_data) = {<<1, 1, 1, 1, 2>>}
    /\ CounterGet(roll_data, <<1, 1, 1, 1, 2>>) = 2

\* Whether rerolling the dice of d at the positions reroll_indices can give
\* a hand whose sorted form is that of h
CanProduce(d, reroll_indices, h) ==
    \A f \in Faces :
        Cardinality({p \in Positions : d[p] = f
                        /\ \A j \in DOMAIN reroll_indices : reroll_indices[j] + 1 # p})
            <= Multiplicity(h, f)

\* The adjusted score that hand h contributes as a simulated outcome, under
\* table rd, times 10
Contribution(h, rd, played) == AdjustedScore(h, rd, played, most_common_numbers(rd))

\* C13 as stated: recording one more observation of h never lowers the
\* adjusted score h contributes, and never lowers the expected value of a
\* reroll subset that can produce h.
C13_ExpectedValueNeverLower ==
    [][\A h \in RaisedHands :
          (RecordObservation(h) /\ played_categories # CategoryNames)
              => /\ Contribution(h, roll_data', played_categories)
                        >= Contribution(h, roll_data, played_categories)
                 /\ \A c \in RerollChoices(MaxRerolls) :
                        CanProduce(dice, c, h)
                            => ExpectedValue(dice, c, roll_data', played_categories,
                                             most_common_numbers(roll_data'))
                                 >= ExpectedValue(dice, c, roll_data, played_categories,
                                                  most_common_numbers(roll_data))]_vars

\* C13 amended: recording one more observation of h never lowers the
\* adjusted score (best score x weight x bonus) that h itself contributes
\* as a simulated outcome; the weight read for h never falls and no die of h
\* stops counting towards the bonus.
C13_ContributionNeverLower ==
    [][\A h \in RaisedHands :
          (RecordObservation(h) /\ played_categories # CategoryNames)
              => /\ Contribution(h, roll_data', played_categories)
                        >= Contribution(h, roll_data, played_categories)
                 /\ DictGet(roll_data', sorted(h), DefaultWeight)
                        >= DictGet(roll_data, sorted(h), DefaultWeight)
                 /\ Cardinality({p \in Positions : h[p] \in most_common_numbers(roll_data')})
                        >= Cardinality({p \in Positions : h[p] \in most_common_numbers(roll_data)})]_vars

\* C13's case: the count of 2 3 4 4 6 was raised from 1 to 2 beside one
\* observation of 1 2 2 2 6, for the hand 3 4 2 6 2, which produces 2 3 4 4 6
\* by rerolling positions 1 and 2: its contribution rose while the
\* expected value of that subset fell.
C13_Witness ==
    /\ dice = <<3, 4, 2, 6, 2>> /\ played_categories = {}
    /\ roll_data = << <<<<1, 2, 2, 2, 6>>, 1>>, <<<<2, 3, 4, 4, 6>>, 2>> >>
    /\ CanProduce(dice, <<1, 2>>, <<2, 3, 4, 4, 6>>)
    /\ Contribution(<<2, 3, 4, 4, 6>>, roll_data, played_categories)
           > Contribution(<<2, 3, 4, 4, 6>>,
                          << <<<<1, 2, 2, 2, 6>>, 1>>, <<<<2, 3, 4, 4, 6>>, 1>> >>,
                          played_categories)
    /\ ExpectedValue(dice, <<1, 2>>, roll_data, played_categories,
                     most_common_numbers(roll_data))
           < ExpectedValue(dice, <<1, 2>>,
                           << <<<<1, 2, 2, 2, 6>>, 1>>, <<<<2, 3, 4, 4, 6>>, 1>> >>,
                           played_categories,
                           most_common_numbers(<< <<<<1, 2, 2, 2, 6>>, 1>>,
                                                  <<<<2, 3, 4, 4, 6>>, 1>> >>))

\* C14: with an empty table, the hand 1 1 1 1 2, nothing played and 2
\* rerolls remaining, the recommendation is to reroll the one die showing 2
\* (position 4); its expected value is (50 + 6 + 7 + 8 + 9 + 10) / 6 = 15,
\* above the best score now, 6, and above the expected value of every other
\* subset of 1 or 2 positions.
C14_RerollTheTwo ==
    (/\ pc = "recommended" /\ dice = <<1, 1, 1, 1, 2>> /\ roll_data = <<>>
     /\ played_categories = {} /\ RerollsRemaining = 2)
        => /\ rec.kind = "Reroll"
           /\ rec.reroll_indices = <<4>>
           /\ rec.reroll_values = <<2>>
           /\ 6 * rec.expected_value = EVScale * (50 + 6 + 7 + 8 + 9 + 10)
           /\ rec.expected_value = EVScale * 15
           /\ rec.score = 6
           /\ rec.expected_value > EVScale * rec.score
           /\ DOMAIN rec.expected_values = RerollChoices(2)
           /\ \A c \in DOMAIN rec.expected_values :
                  c # <<4>> => rec.expected_values[c] < rec.expected_value

C14_Witness ==
    /\ pc = "recommended" /\ dice = <<1, 1, 1, 1, 2>> /\ roll_data = <<>>
    /\ played_categories = {} /\ RerollsRemaining = 2
    /\ rec.kind = "Reroll" /\ Cardinality(DOMAIN rec.expected_values) = 15

\* C15: roll_count is always 0, 1 or 2 and the "Reroll limit reached"
\* branch is never taken; a Score recommendation leaves roll_count at 0, a
\* Reroll recommendation raises it by exactly 1, and nothing else changes
\* it.  So roll_count counts the Reroll recommendations made since the last
\* Score, and a turn gets at most two: of three recommendations in a row,
\* one is a Score.
C15_AtMostTwoRerolls ==
    /\ [](roll_count \in 0..2 /\ rec.kind # "ForcedScore")
    /\ [][/\ rec'.kind = "Score" => roll_count' = 0
          /\ rec'.kind = "Reroll" => roll_count' = roll_count + 1
          /\ rec'.kind \notin {"Score", "Reroll"} => roll_count' = roll_count]_vars

\* C15's case: two Reroll recommendations were made in the turn.
C15_Witness ==
    /\ pc = "prompt" /\ rec.kind = "Reroll" /\ roll_count = 2
    /\ LastPlayedWasCategory = "False"

\* C16: when a hand was just answered with Reroll, 'back' undoes that roll:
\* the count of the hand's sorted form goes down by one (its key is removed
\* when it was 1) and no other count changes, so the table is again what it
\* was before the hand was entered.
C16_UndoRemovesLastRoll ==
    [][(pc = "prompt" /\ rec.kind = "Reroll" /\ rec'.kind = "UndoRoll")
          => /\ \A k \in KeysOf(roll_data) \cup KeysOf(roll_data') :
                    CounterGet(roll_data', k)
                        = CounterGet(roll_data, k) - (IF k = sorted(dice) THEN 1 ELSE 0)
             /\ \A i \in DOMAIN roll_data' : roll_data'[i][2] >= 1]_vars

\* C17: whenever the program waits for input, the database holds exactly
\* one document per key of roll_data, with the same count, so that loading
\* it would give roll_data again.
C17_StoreAgrees ==
    pc = "prompt"
        => /\ DocumentsOf(rolls_table) = ItemsOf(roll_data)
           /\ Len(rolls_table) = Len(roll_data)
           /\ ItemsOf(load_roll_data(rolls_table)) = ItemsOf(roll_data)
           /\ Len(load_roll_data(rolls_table)) = Len(roll_data)

\* C18: 'back' is always handled without error, in one of three ways: the
\* last roll is undone (the store is not empty and the last recommendation
\* was Reroll), the last category played is undone (the history is not
\* empty and the last recommendation was Score), or "nothing to undo" is
\* reported and nothing changes.
C18_BackHandled ==
    [][HandleBack
          => /\ pc' = "prompt"
             /\ rec'.kind \in {"UndoRoll", "UndoCategory", "NothingToUndo"}
             /\ rec'.kind = "UndoRoll"
                    => /\ rolls_table # <<>> /\ LastPlayedWasCategory = "False"
                       /\ Len(rolls_table') = Len(rolls_table) - 1
             /\ rec'.kind = "UndoCategory"
                    => /\ category_history # <<>> /\ LastPlayedWasCategory = "True"
                       /\ Len(category_history') = Len(category_history) - 1
             /\ rec'.kind = "NothingToUndo"
                    => UNCHANGED <<roll_data, rolls_table, played_categories,
                                   category_history, roll_count>>]_vars

\* C19: a line that is rejected as invalid changes nothing: roll_data, the
\* database, played_categories, category_history, roll_count and
\* LastPlayedWasCategory are after the rejection what they were before it,
\* and the program is at the prompt again.  Every line of Inputs that is not
\* five integers in 1..6 is rejected, and no other.
C19_InvalidChangesNothing ==
    /\ [][(pc = "prompt" /\ rec'.kind = "Invalid")
             => /\ pc' = "prompt"
                /\ UNCHANGED <<roll_data, rolls_table, played_categories,
                               category_history, roll_count, LastPlayedWasCategory>>]_vars
    /\ [](\A inp \in Inputs :
             IsHand(inp) <=> /\ inp.numeric
                             /\ Len(inp.values) = 5
                             /\ \A i \in 1..Len(inp.values) : inp.values[i] \in 1..6)
    /\ [](dice = <<>> \/ dice \in AllHands)

\* C19's case: a line is rejected in the middle of a turn, after a Reroll
\* recommendation, with a roll recorded in the table and in the database.
C19_Witness ==
    /\ pc = "prompt" /\ rec.kind = "Invalid"
    /\ roll_count = 1 /\ LastPlayedWasCategory = "False"
    /\ roll_data # <<>> /\ rolls_table # <<>>

====
